---- MODULE Spec2Model ----
(***************************************************************************)
(* Model of .ci/update-release.py: the release uploader of docforge.       *)
(* The script is one straight-line procedure; pc is the position in it.    *)
(* The process environment is fixed at start (Init); the VERSION file, the *)
(* remote service and the build output tree are observed when the script   *)
(* reaches them.                                                           *)
(***************************************************************************)
EXTENDS Integers, Sequences, FiniteSets, TLC

VARIABLES env, pc, failed_at,
          repo_owner_and_name, repo_dir, output_dir,
          repo_owner, repo_name,
          version_file, version_file_contents,
          github_repo_helper, gh_release,
          lookup, fs, walk_stack, cur_dir, cur_files, walked,
          uploads, calls, open_handles

vars == <<env, pc, failed_at, repo_owner_and_name, repo_dir, output_dir,
          repo_owner, repo_name, version_file, version_file_contents,
          github_repo_helper, gh_release, lookup, fs, walk_stack, cur_dir, cur_files,
          walked, uploads, calls, open_handles>>

(* ---------------- bounds ---------------- *)
MaxRepoLen == 2
MaxVersionLen == 1
MaxFiles == 2

(* ---------------- value universes ---------------- *)
RepoChars == {"o", "/"}
VersionChars == {"1", "\r", "\n"}
Dirs == {<<>>, <<"linux">>, <<"windows">>, <<"linux", "amd64">>}
FileNames == {"app", "app.exe"}

SeqsUpTo(S, n) == UNION {[1..k -> S] : k \in 0..n}

None == [some |-> FALSE, val |-> <<>>]
Some(v) == [some |-> TRUE, val |-> v]

VERSION_FILE_NAME == "VERSION"
OctetStream == "application/octet-stream"

Unset == [set |-> FALSE, val |-> <<>>]
SetTo(v) == [set |-> TRUE, val |-> v]

Perms(S) == {p \in [1..Cardinality(S) -> S] : \A i, j \in 1..Cardinality(S) : p[i] = p[j] => i = j}

(* ---------------- pure functions ---------------- *)

\* variant: os.environ.get(name, ''), an unset variable reads as empty
check_env_default(name) == [ok |-> TRUE, val |-> env[name].val]

\* util.check_env(name): the value of the variable, or failure when unset
check_env(name) == [ok |-> env[name].set, val |-> env[name].val]

\* str.split('/'): the list of the pieces between the separators
RECURSIVE SplitAcc(_, _, _)
SplitAcc(s, sep, cur) ==
    IF s = <<>> THEN <<cur>>
    ELSE IF Head(s) = sep THEN <<cur>> \o SplitAcc(Tail(s), sep, <<>>)
    ELSE SplitAcc(Tail(s), sep, Append(cur, Head(s)))

\* variant: split('/', 1), only the first separator splits
RECURSIVE SplitFirstAcc(_, _, _)
SplitFirstAcc(s, sep, cur) ==
    IF s = <<>> THEN <<cur>>
    ELSE IF Head(s) = sep THEN <<cur, Tail(s)>>
    ELSE SplitFirstAcc(Tail(s), sep, Append(cur, Head(s)))

split_first(s, sep) == SplitFirstAcc(s, sep, <<>>)

split(s, sep) == SplitAcc(s, sep, <<>>)

\* the text a text-mode read gives for the bytes of a file: universal
\* newlines, "\r\n" and a lone "\r" are both read as "\n"
RECURSIVE UniversalNewlines(_)
UniversalNewlines(b) ==
    IF b = <<>> THEN <<>>
    ELSE IF Head(b) = "\r"
         THEN IF Len(b) > 1 /\ b[2] = "\n"
              THEN <<"\n">> \o UniversalNewlines(Tail(Tail(b)))
              ELSE <<"\n">> \o UniversalNewlines(Tail(b))
         ELSE <<Head(b)>> \o UniversalNewlines(Tail(b))

\* variant: read_text().strip()
Whitespace == {" ", "\n", "\r"}
RECURSIVE LStrip(_)
LStrip(t) == IF t # <<>> /\ Head(t) \in Whitespace THEN LStrip(Tail(t)) ELSE t
RECURSIVE RStrip(_)
RStrip(t) == IF t # <<>> /\ t[Len(t)] \in Whitespace THEN RStrip(SubSeq(t, 1, Len(t) - 1)) ELSE t

read_text_stripped(bytes) == RStrip(LStrip(UniversalNewlines(bytes)))

\* pathlib.Path.read_text() of a readable file
read_text(bytes) == UniversalNewlines(bytes)

\* the states the VERSION file can be found in
VersionFileStates ==
    {[state |-> "missing", bytes |-> <<>>], [state |-> "unreadable", bytes |-> <<>>]}
    \cup {[state |-> "readable", bytes |-> b] : b \in SeqsUpTo(VersionChars, MaxVersionLen)}

Unobserved == [state |-> "unobserved", bytes |-> <<>>]

\* the build output trees: directories below <output>/bin/rel and the
\* regular files in them; no directory at all when bin/rel is absent
Parent(d) == SubSeq(d, 1, Len(d) - 1)
AllFiles == {[dir |-> d, name |-> n] : d \in Dirs, n \in FileNames}
Trees ==
    {t \in [dirs : SUBSET Dirs, files : SUBSET AllFiles] :
        /\ \A d \in t.dirs : d # <<>> => Parent(d) \in t.dirs
        /\ \A f \in t.files : f.dir \in t.dirs
        /\ Cardinality(t.files) <= MaxFiles}
NoTree == [dirs |-> {}, files |-> {}]

\* the release lookup: whether it was made, with which tag, and what the
\* remote answered
NotLookedUp == [called |-> FALSE, tag |-> <<>>, found |-> FALSE]

FilesIn(t, d) == {f.name : f \in {g \in t.files : g.dir = d}}
SubdirsOf(t, d) == {e \in t.dirs : e # <<>> /\ Parent(e) = d}

\* f'{binName}' : the asset name is the entry's name in its directory
AssetName(dir, binName) == binName

TerminalPc == {"done", "failed"}

(* ---------------- initial state ---------------- *)
Init ==
    /\ \E r \in {Unset} \cup {SetTo(s) : s \in SeqsUpTo(RepoChars, MaxRepoLen)},
          d \in {Unset, SetTo(<<"repo">>)},
          o \in {Unset, SetTo(<<"out">>)} :
          env = [SOURCE_GITHUB_REPO_OWNER_AND_NAME |-> r,
                 MAIN_REPO_DIR |-> d,
                 BINARY_PATH |-> o]
    /\ pc = "check_env_repo"
    /\ failed_at = ""
    /\ repo_owner_and_name = <<>>
    /\ repo_dir = <<>>
    /\ output_dir = <<>>
    /\ repo_owner = <<>>
    /\ repo_name = <<>>
    /\ version_file = Unobserved
    /\ version_file_contents = <<>>
    /\ github_repo_helper = None
    /\ gh_release = None
    /\ lookup = NotLookedUp
    /\ fs = NoTree
    /\ walk_stack = <<>>
    /\ cur_dir = <<>>
    /\ cur_files = <<>>
    /\ walked = <<>>
    /\ uploads = <<>>
    /\ calls = <<>>
    /\ open_handles = {}

Fail(step) == pc' = "failed" /\ failed_at' = step

(* ---------------- the script, line by line ---------------- *)

\* line 11
CheckEnvRepo ==
    /\ pc = "check_env_repo"
    /\ calls' = Append(calls, "check_env")
    /\ LET r == check_env("SOURCE_GITHUB_REPO_OWNER_AND_NAME") IN
       IF r.ok
       THEN /\ repo_owner_and_name' = r.val
            /\ pc' = "check_env_repo_dir"
            /\ UNCHANGED failed_at
       ELSE /\ Fail("check_env")
            /\ UNCHANGED repo_owner_and_name
    /\ UNCHANGED <<env, repo_dir, output_dir, repo_owner, repo_name, version_file,
                   version_file_contents, github_repo_helper, gh_release, lookup, fs,
                   walk_stack, cur_dir, cur_files, walked, uploads, open_handles>>

\* line 12
CheckEnvRepoDir ==
    /\ pc = "check_env_repo_dir"
    /\ calls' = Append(calls, "check_env")
    /\ LET r == check_env("MAIN_REPO_DIR") IN
       IF r.ok
       THEN /\ repo_dir' = r.val
            /\ pc' = "check_env_output_dir"
            /\ UNCHANGED failed_at
       ELSE /\ Fail("check_env")
            /\ UNCHANGED repo_dir
    /\ UNCHANGED <<env, repo_owner_and_name, output_dir, repo_owner, repo_name,
                   version_file, version_file_contents, github_repo_helper,
                   gh_release, lookup, fs, walk_stack, cur_dir, cur_files, walked,
                   uploads, open_handles>>

\* line 13
CheckEnvOutputDir ==
    /\ pc = "check_env_output_dir"
    /\ calls' = Append(calls, "check_env")
    /\ LET r == check_env("BINARY_PATH") IN
       IF r.ok
       THEN /\ output_dir' = r.val
            /\ pc' = "split"
            /\ UNCHANGED failed_at
       ELSE /\ Fail("check_env")
            /\ UNCHANGED output_dir
    /\ UNCHANGED <<env, repo_owner_and_name, repo_dir, repo_owner, repo_name,
                   version_file, version_file_contents, github_repo_helper,
                   gh_release, lookup, fs, walk_stack, cur_dir, cur_files, walked,
                   uploads, open_handles>>

\* line 15: repo_owner, repo_name = repo_owner_and_name.split('/')
SplitOwnerAndName ==
    /\ pc = "split"
    /\ LET parts == split(repo_owner_and_name, "/") IN
       IF Len(parts) = 2
       THEN /\ repo_owner' = parts[1]
            /\ repo_name' = parts[2]
            /\ pc' = "read_version"
            /\ UNCHANGED failed_at
       ELSE /\ Fail("unpack")
            /\ UNCHANGED <<repo_owner, repo_name>>
    /\ UNCHANGED <<env, repo_owner_and_name, repo_dir, output_dir, version_file,
                   version_file_contents, github_repo_helper, gh_release, lookup, fs,
                   walk_stack, cur_dir, cur_files, walked, uploads, calls,
                   open_handles>>

\* variant: a VERSION file that cannot be read counts as an empty version
ReadVersion_MissingAsEmpty ==
    /\ pc = "read_version"
    /\ calls' = Append(calls, "read_text")
    /\ \E f \in VersionFileStates :
         /\ version_file' = f
         /\ version_file_contents' = IF f.state = "readable" THEN read_text(f.bytes) ELSE <<>>
         /\ pc' = "cfg_factory"
         /\ UNCHANGED failed_at
    /\ UNCHANGED <<env, repo_owner_and_name, repo_dir, output_dir, repo_owner,
                   repo_name, github_repo_helper, gh_release, lookup, fs, walk_stack,
                   cur_dir, cur_files, walked, uploads, open_handles>>

\* lines 17-21: the paths, then version_file_path.read_text()
ReadVersion ==
    /\ pc = "read_version"
    /\ calls' = Append(calls, "read_text")
    /\ \E f \in VersionFileStates :
         /\ version_file' = f
         /\ IF f.state = "readable"
            THEN /\ version_file_contents' = read_text(f.bytes)
                 /\ pc' = "cfg_factory"
                 /\ UNCHANGED failed_at
            ELSE /\ Fail("read_text")
                 /\ UNCHANGED version_file_contents
    /\ UNCHANGED <<env, repo_owner_and_name, repo_dir, output_dir, repo_owner,
                   repo_name, github_repo_helper, gh_release, lookup, fs, walk_stack,
                   cur_dir, cur_files, walked, uploads, open_handles>>

\* lines 23-24: util.ctx().cfg_factory(), cfg_factory.github('github_com')
CfgFactory ==
    /\ pc = "cfg_factory"
    /\ calls' = Append(calls, "cfg_factory")
    /\ \E ok \in BOOLEAN :
         IF ok THEN pc' = "helper" /\ UNCHANGED failed_at
               ELSE Fail("cfg_factory")
    /\ UNCHANGED <<env, repo_owner_and_name, repo_dir, output_dir, repo_owner,
                   repo_name, version_file, version_file_contents,
                   github_repo_helper, gh_release, lookup, fs, walk_stack, cur_dir,
                   cur_files, walked, uploads, open_handles>>

\* lines 26-30: GitHubRepositoryHelper(owner=, name=, github_cfg=)
CreateHelper ==
    /\ pc = "helper"
    /\ calls' = Append(calls, "GitHubRepositoryHelper")
    /\ \E ok \in BOOLEAN :
         IF ok
         THEN /\ github_repo_helper' = Some([owner |-> repo_owner, name |-> repo_name])
              /\ pc' = "release_from_tag"
              /\ UNCHANGED failed_at
         ELSE /\ Fail("GitHubRepositoryHelper")
              /\ UNCHANGED github_repo_helper
    /\ UNCHANGED <<env, repo_owner_and_name, repo_dir, output_dir, repo_owner,
                   repo_name, version_file, version_file_contents, gh_release,
                   lookup, fs, walk_stack, cur_dir, cur_files, walked, uploads,
                   open_handles>>

\* variant: a client that answers None for a tag without release
ReleaseFromTag_ReturnsNone ==
    /\ pc = "release_from_tag"
    /\ calls' = Append(calls, "release_from_tag")
    /\ \E exists \in BOOLEAN :
         /\ lookup' = [called |-> TRUE, tag |-> version_file_contents, found |-> exists]
         /\ gh_release' = IF exists THEN Some(version_file_contents) ELSE None
         /\ pc' = "walk"
         /\ UNCHANGED failed_at
    /\ UNCHANGED <<env, repo_owner_and_name, repo_dir, output_dir, repo_owner,
                   repo_name, version_file, version_file_contents,
                   github_repo_helper, fs, walk_stack, cur_dir, cur_files,
                   walked, uploads, open_handles>>

\* line 32: repository.release_from_tag(version_file_contents); the client
\* raises when the remote has no release for the tag
ReleaseFromTag ==
    /\ pc = "release_from_tag"
    /\ calls' = Append(calls, "release_from_tag")
    /\ \E exists \in BOOLEAN :
         /\ lookup' = [called |-> TRUE, tag |-> version_file_contents, found |-> exists]
         /\ IF exists
            THEN /\ gh_release' = Some(version_file_contents)
                 /\ pc' = "walk"
                 /\ UNCHANGED failed_at
            ELSE /\ Fail("release_from_tag")
                 /\ UNCHANGED gh_release
    /\ UNCHANGED <<env, repo_owner_and_name, repo_dir, output_dir, repo_owner,
                   repo_name, version_file, version_file_contents,
                   github_repo_helper, fs, walk_stack, cur_dir, cur_files,
                   walked, uploads, open_handles>>

\* line 34: os.walk(os.path.join(output_path, "bin", "rel")) : the generator
\* is created over the tree found on disk
StartWalk ==
    /\ pc = "walk"
    /\ \E t \in Trees : fs' = t
    /\ walk_stack' = << <<>> >>
    /\ pc' = "loop"
    /\ UNCHANGED <<env, failed_at, repo_owner_and_name, repo_dir, output_dir,
                   repo_owner, repo_name, version_file, version_file_contents,
                   github_repo_helper, gh_release, lookup, cur_dir, cur_files,
                   walked, uploads, calls, open_handles>>

\* variant: os.listdir instead of os.walk, sub-directories are not visited
WalkNext_TopOnly ==
    /\ pc = "loop"
    /\ cur_files = <<>>
    /\ walk_stack # <<>>
    /\ LET d == Head(walk_stack) IN
       IF d \notin fs.dirs
       THEN /\ walk_stack' = Tail(walk_stack)
            /\ UNCHANGED <<cur_dir, cur_files, walked>>
       ELSE \E fo \in Perms(FilesIn(fs, d)) :
              /\ cur_dir' = d
              /\ cur_files' = fo
              /\ walked' = walked \o [i \in 1..Len(fo) |-> [dir |-> d, name |-> fo[i]]]
              /\ walk_stack' = Tail(walk_stack)
    /\ UNCHANGED <<env, pc, failed_at, repo_owner_and_name, repo_dir, output_dir,
                   repo_owner, repo_name, version_file, version_file_contents,
                   github_repo_helper, gh_release, lookup, fs, uploads, calls,
                   open_handles>>

\* variant: a directory that cannot be listed is an error (onerror raises)
WalkNext_RaiseOnAbsent ==
    /\ pc = "loop"
    /\ cur_files = <<>>
    /\ walk_stack # <<>>
    /\ LET d == Head(walk_stack) IN
       IF d \notin fs.dirs
       THEN /\ walk_stack' = Tail(walk_stack)
            /\ Fail("scandir")
            /\ UNCHANGED <<cur_dir, cur_files, walked>>
       ELSE \E fo \in Perms(FilesIn(fs, d)), so \in Perms(SubdirsOf(fs, d)) :
              /\ cur_dir' = d
              /\ cur_files' = fo
              /\ walked' = walked \o [i \in 1..Len(fo) |-> [dir |-> d, name |-> fo[i]]]
              /\ walk_stack' = so \o Tail(walk_stack)
              /\ UNCHANGED <<pc, failed_at>>
    /\ UNCHANGED <<env, repo_owner_and_name, repo_dir, output_dir,
                   repo_owner, repo_name, version_file, version_file_contents,
                   github_repo_helper, gh_release, lookup, fs, uploads, calls,
                   open_handles>>

\* line 34: the generator's next (dir, dirs, files); a directory that cannot
\* be listed yields nothing (onerror is None); the sub-directories are
\* visited after the directory itself, entries in the order scandir gives
WalkNext ==
    /\ pc = "loop"
    /\ cur_files = <<>>
    /\ walk_stack # <<>>
    /\ LET d == Head(walk_stack) IN
       IF d \notin fs.dirs
       THEN /\ walk_stack' = Tail(walk_stack)
            /\ UNCHANGED <<cur_dir, cur_files, walked>>
       ELSE \E fo \in Perms(FilesIn(fs, d)), so \in Perms(SubdirsOf(fs, d)) :
              /\ cur_dir' = d
              /\ cur_files' = fo
              /\ walked' = walked \o [i \in 1..Len(fo) |-> [dir |-> d, name |-> fo[i]]]
              /\ walk_stack' = so \o Tail(walk_stack)
    /\ UNCHANGED <<env, pc, failed_at, repo_owner_and_name, repo_dir, output_dir,
                   repo_owner, repo_name, version_file, version_file_contents,
                   github_repo_helper, gh_release, lookup, fs, uploads, calls,
                   open_handles>>

\* lines 36-41: gh_release.upload_asset is looked up, then the arguments are
\* evaluated: binFilePath.open(mode='rb')
OpenAsset ==
    /\ pc = "loop"
    /\ cur_files # <<>>
    /\ LET binFilePath == [dir |-> cur_dir, name |-> Head(cur_files)] IN
       IF ~gh_release.some
       THEN /\ Fail("attribute")
            /\ UNCHANGED <<open_handles, calls>>
       ELSE /\ calls' = Append(calls, "open")
            /\ \E ok \in BOOLEAN :
                 IF ok
                 THEN /\ open_handles' = open_handles \cup {binFilePath}
                      /\ pc' = "upload"
                      /\ UNCHANGED failed_at
                 ELSE /\ Fail("open")
                      /\ UNCHANGED open_handles
    /\ UNCHANGED <<env, repo_owner_and_name, repo_dir, output_dir, repo_owner,
                   repo_name, version_file, version_file_contents,
                   github_repo_helper, gh_release, lookup, fs, walk_stack, cur_dir,
                   cur_files, walked, uploads>>

\* variant: a failed upload is caught and the loop goes on to the next file
UploadAsset_ContinueOnError ==
    /\ pc = "upload"
    /\ calls' = Append(calls, "upload_asset")
    /\ LET binName == Head(cur_files)
           binFilePath == [dir |-> cur_dir, name |-> binName] IN
       \E ok \in BOOLEAN, finalised \in BOOLEAN :
         /\ uploads' = Append(uploads,
                [path |-> binFilePath,
                 name |-> AssetName(cur_dir, binName),
                 content_type |-> OctetStream,
                 release |-> gh_release.val,
                 result |-> IF ok THEN "ok" ELSE "error"])
         /\ open_handles' = IF finalised THEN open_handles \ {binFilePath}
                                         ELSE open_handles
         /\ cur_files' = Tail(cur_files)
         /\ pc' = "loop"
         /\ UNCHANGED failed_at
    /\ UNCHANGED <<env, repo_owner_and_name, repo_dir, output_dir, repo_owner,
                   repo_name, version_file, version_file_contents,
                   github_repo_helper, gh_release, lookup, fs, walk_stack, cur_dir,
                   walked>>

\* variant: the release is looked up again inside the loop, before each upload
UploadAsset_Relookup ==
    /\ pc = "upload"
    /\ calls' = calls \o <<"release_from_tag", "upload_asset">>
    /\ LET binName == Head(cur_files)
           binFilePath == [dir |-> cur_dir, name |-> binName] IN
       \E ok \in BOOLEAN, finalised \in BOOLEAN :
         /\ uploads' = Append(uploads,
                [path |-> binFilePath,
                 name |-> AssetName(cur_dir, binName),
                 content_type |-> OctetStream,
                 release |-> gh_release.val,
                 result |-> IF ok THEN "ok" ELSE "error"])
         /\ open_handles' = IF finalised THEN open_handles \ {binFilePath}
                                         ELSE open_handles
         /\ IF ok
            THEN /\ cur_files' = Tail(cur_files)
                 /\ pc' = "loop"
                 /\ UNCHANGED failed_at
            ELSE /\ Fail("upload_asset")
                 /\ UNCHANGED cur_files
    /\ UNCHANGED <<env, repo_owner_and_name, repo_dir, output_dir, repo_owner,
                   repo_name, version_file, version_file_contents,
                   github_repo_helper, gh_release, lookup, fs, walk_stack, cur_dir,
                   walked>>

\* lines 38-42: the upload_asset call itself. The script never closes the
\* file object: it is closed only if the runtime finalises it once the call
\* has dropped it, which the language does not promise
UploadAsset ==
    /\ pc = "upload"
    /\ calls' = Append(calls, "upload_asset")
    /\ LET binName == Head(cur_files)
           binFilePath == [dir |-> cur_dir, name |-> binName] IN
       \E ok \in BOOLEAN, finalised \in BOOLEAN :
         /\ uploads' = Append(uploads,
                [path |-> binFilePath,
                 name |-> AssetName(cur_dir, binName),
                 content_type |-> OctetStream,
                 release |-> gh_release.val,
                 result |-> IF ok THEN "ok" ELSE "error"])
         /\ open_handles' = IF finalised THEN open_handles \ {binFilePath}
                                         ELSE open_handles
         /\ IF ok
            THEN /\ cur_files' = Tail(cur_files)
                 /\ pc' = "loop"
                 /\ UNCHANGED failed_at
            ELSE /\ Fail("upload_asset")
                 /\ UNCHANGED cur_files
    /\ UNCHANGED <<env, repo_owner_and_name, repo_dir, output_dir, repo_owner,
                   repo_name, version_file, version_file_contents,
                   github_repo_helper, gh_release, lookup, fs, walk_stack, cur_dir,
                   walked>>

\* the walk is exhausted: the script falls off its end, exit status 0
Finish ==
    /\ pc = "loop"
    /\ cur_files = <<>>
    /\ walk_stack = <<>>
    /\ pc' = "done"
    /\ UNCHANGED <<env, failed_at, repo_owner_and_name, repo_dir, output_dir,
                   repo_owner, repo_name, version_file, version_file_contents,
                   github_repo_helper, gh_release, lookup, fs, walk_stack, cur_dir,
                   cur_files, walked, uploads, calls, open_handles>>

Next ==
    \/ CheckEnvRepo
    \/ CheckEnvRepoDir
    \/ CheckEnvOutputDir
    \/ SplitOwnerAndName
    \/ ReadVersion
    \/ CfgFactory
    \/ CreateHelper
    \/ ReleaseFromTag
    \/ StartWalk
    \/ WalkNext
    \/ OpenAsset
    \/ UploadAsset
    \/ Finish

Spec == Init /\ [][Next]_vars

(* ======================= properties ======================= *)

EnvPcs == {"check_env_repo", "check_env_repo_dir", "check_env_output_dir"}
NetworkOps == {"cfg_factory", "GitHubRepositoryHelper", "release_from_tag", "upload_asset"}
AnyEnvUnset == \E v \in DOMAIN env : ~env[v].set
AllEnvSet == \A v \in DOMAIN env : env[v].set
NoDup(q) == \A i, j \in DOMAIN q : q[i] = q[j] => i = j
Count(op) == Cardinality({i \in DOMAIN calls : calls[i] = op})
SlashCount(q) == Cardinality({i \in DOMAIN q : q[i] = "/"})
UploadPaths == [i \in DOMAIN uploads |-> uploads[i].path]

\* the text of a file, stated position by position: a "\n" that directly
\* follows a "\r" is dropped, every "\r" that remains reads as "\n"
KeptPositions(b) == {i \in DOMAIN b : ~(b[i] = "\n" /\ i > 1 /\ b[i - 1] = "\r")}
KthKept(b, k) == CHOOSE i \in KeptPositions(b) : Cardinality({j \in KeptPositions(b) : j <= i}) = k
TextOf(b) == [k \in 1..Cardinality(KeptPositions(b)) |->
                 IF b[KthKept(b, k)] = "\r" THEN "\n" ELSE b[KthKept(b, k)]]

\* C1: a run that ends in success has made exactly one upload_asset call per
\* regular file under bin/rel, none twice and none for anything else, each
\* on the resolved release, named by the file's base name and with content
\* type application/octet-stream
C1_OneUploadPerFile ==
    pc = "done" =>
        /\ {uploads[i].path : i \in DOMAIN uploads} = fs.files
        /\ NoDup(UploadPaths)
        /\ \A i \in DOMAIN uploads :
             /\ uploads[i].name = uploads[i].path.name
             /\ uploads[i].content_type = "application/octet-stream"
             /\ uploads[i].release = lookup.tag
             /\ uploads[i].result = "ok"

\* C1 witness: a successful run over two files of the same base name in
\* different sub-directories, one of them nested two levels deep
C1_Witness ==
    /\ pc = "done"
    /\ \E i, j \in DOMAIN uploads :
         /\ uploads[i].path.dir = <<"linux", "amd64">>
         /\ uploads[j].path.dir = <<"windows">>
         /\ uploads[i].name = uploads[j].name

\* C2: with a required environment variable unset the run never gets past
\* the check_env calls: it fails there, the VERSION file is not read and no
\* configuration, lookup or upload call is made
C2_UnsetEnvFailsBeforeIO ==
    AnyEnvUnset =>
        /\ pc \in EnvPcs \cup {"failed"}
        /\ pc = "failed" => failed_at = "check_env"
        /\ \A i \in DOMAIN calls : calls[i] = "check_env"
        /\ version_file = Unobserved
        /\ ~github_repo_helper.some
        /\ ~lookup.called
        /\ uploads = <<>>

\* C2 witness: the third variable is the unset one and the run has failed
C2_Witness ==
    /\ pc = "failed"
    /\ env["SOURCE_GITHUB_REPO_OWNER_AND_NAME"].set
    /\ env["MAIN_REPO_DIR"].set
    /\ ~env["BINARY_PATH"].set
    /\ Len(calls) = 3

\* C3: a VERSION file that is missing or unreadable fails the run at the
\* read, with no configuration, helper, lookup or upload call made
C3_MissingVersionFailsBeforeNetwork ==
    version_file.state \in {"missing", "unreadable"} =>
        /\ pc = "failed"
        /\ failed_at = "read_text"
        /\ \A i \in DOMAIN calls : calls[i] \notin NetworkOps
        /\ ~github_repo_helper.some
        /\ ~lookup.called
        /\ uploads = <<>>

\* C3 witness: the VERSION file was found missing
C3_Witness == version_file.state = "missing" /\ pc = "failed"

\* C4: when the remote has no release for the tag the run fails at the
\* lookup and no file is opened or uploaded
C4_NoReleaseFailsWithoutUpload ==
    (lookup.called /\ ~lookup.found) =>
        /\ pc = "failed"
        /\ failed_at = "release_from_tag"
        /\ uploads = <<>>
        /\ \A i \in DOMAIN calls : calls[i] \notin {"open", "upload_asset"}

\* C4 witness: the lookup was made and found no release
C4_Witness == lookup.called /\ ~lookup.found /\ pc = "failed"

\* C5: a failed upload is the last upload call of the run and the run has
\* failed at it; the upload calls are, in order and without repetition, a
\* prefix of the files in walk order
C5_FailedUploadAborts ==
    /\ \A i \in DOMAIN uploads :
         uploads[i].result = "error" =>
            i = Len(uploads) /\ pc = "failed" /\ failed_at = "upload_asset"
    /\ (pc = "failed" /\ failed_at = "upload_asset") =>
         (uploads # <<>> /\ uploads[Len(uploads)].result = "error")
    /\ Len(uploads) <= Len(walked)
    /\ \A i \in DOMAIN uploads : uploads[i].path = walked[i]
    /\ NoDup(UploadPaths)

\* C5 witness: the walk gave two files, the upload of the first failed and
\* the second was never uploaded
C5_Witness ==
    /\ pc = "failed"
    /\ failed_at = "upload_asset"
    /\ Len(walked) = 2
    /\ Len(uploads) = 1
    /\ uploads[1].result = "error"

C7_NoFilesNoUploadsSuccess ==
    (lookup.found /\ pc # "walk" /\ fs.files = {}) =>
        /\ pc \in {"loop", "done"}
        /\ failed_at = ""
        /\ uploads = <<>>
        /\ \A i \in DOMAIN calls : calls[i] \notin {"open", "upload_asset"}
        /\ pc = "loop" => ENABLED (WalkNext \/ Finish)

\* C7 witness: success over a tree of empty directories only
C7_Witness ==
    /\ pc = "done"
    /\ fs.files = {}
    /\ <<"linux", "amd64">> \in fs.dirs
    /\ uploads = <<>>

\* C8: at most one asset file handle is open at any point, none is open
\* between two uploads and none when the run has ended
C8_HandlesScoped ==
    /\ Cardinality(open_handles) <= 1
    /\ pc \in {"loop", "done", "failed"} => open_handles = {}

\* C9: the calls of a run are, in this order and each at most once, the three
\* check_env, read_text, configuration, helper and release_from_tag, then the
\* uploads, each opened and completed before the next one is opened, and
\* none before the lookup has found the release
StraightLine ==
    <<"check_env", "check_env", "check_env", "read_text", "cfg_factory",
      "GitHubRepositoryHelper", "release_from_tag">>

C9_FixedOrder ==
    /\ \A i \in DOMAIN calls :
         calls[i] = IF i <= Len(StraightLine) THEN StraightLine[i]
                    ELSE IF (i - Len(StraightLine)) % 2 = 1 THEN "open"
                    ELSE "upload_asset"
    /\ Len(calls) > Len(StraightLine) => (lookup.found /\ gh_release.some)
    /\ pc = "upload" <=> (calls # <<>> /\ calls[Len(calls)] = "open" /\ failed_at = "")
    /\ Len(uploads) = Cardinality({i \in DOMAIN calls : calls[i] = "upload_asset"})

\* C9 witness: a successful run with two uploads
C9_Witness == pc = "done" /\ Len(uploads) = 2 /\ Count("release_from_tag") = 1

\* C10: a value of SOURCE_GITHUB_REPO_OWNER_AND_NAME without exactly one
\* '/' fails the run before the VERSION file is read or any call is made,
\* at the unpacking when all variables are set; with exactly one '/' the
\* unpacking does not fail, owner is the text before it, name the text after
C10_SplitOwnerName ==
    LET v == env["SOURCE_GITHUB_REPO_OWNER_AND_NAME"] IN
    /\ (v.set /\ SlashCount(v.val) # 1) =>
         /\ pc \in EnvPcs \cup {"split", "failed"}
         /\ version_file = Unobserved
         /\ \A i \in DOMAIN calls : calls[i] = "check_env"
         /\ (AllEnvSet /\ pc = "failed") => failed_at = "unpack"
    /\ (v.set /\ SlashCount(v.val) = 1) =>
         /\ failed_at # "unpack"
         /\ (AllEnvSet /\ pc \notin EnvPcs \cup {"split"}) =>
              /\ repo_owner \o <<"/">> \o repo_name = v.val
              /\ SlashCount(repo_owner) = 0
              /\ SlashCount(repo_name) = 0
         /\ github_repo_helper.some =>
              github_repo_helper.val = [owner |-> repo_owner, name |-> repo_name]

\* C10 witness: a value with two slashes failed the unpacking
C10_Witness ==
    /\ pc = "failed"
    /\ failed_at = "unpack"
    /\ SlashCount(env["SOURCE_GITHUB_REPO_OWNER_AND_NAME"].val) = 2

====
